---- MODULE Spec2Model ----
(***************************************************************************)
(* argparse::ArgumentParser (include/argparse/argument_parser.h) as a      *)
(* state machine: the registry built by argumentNew, and the command-line  *)
(* scan done by cmdlineIs.                                                 *)
(*                                                                         *)
(* A std::string is a sequence of one-character strings.  The Argument     *)
(* objects live in the arena `heap`; a std::shared_ptr<Argument> is an     *)
(* index into it (nullptr is 0), so that two keys of optionMap_ can hold   *)
(* the same Argument.                                                      *)
(***************************************************************************)
EXTENDS Integers, Sequences, FiniteSets, TLC

VARIABLES
    positionalArgList_,   \* std::vector<std::shared_ptr<Argument>>
    optionMap_,           \* key -> shared_ptr<Argument>
    aliasMap_,            \* alias -> option name
    heap,                 \* the Argument objects the shared_ptrs point to
    call,                 \* the last call made on the parser, with its arguments
    thrown,               \* the exception that call ended with (NoThrow if none)
    declFailed,           \* whether some argumentNew so far has thrown
    nDecl,                \* argumentNew calls made so far
    nParse,               \* cmdlineIs calls made so far
    returned              \* what the last ArgValue::value<T>() call returned

registry == <<positionalArgList_, optionMap_, aliasMap_>>

vars == <<positionalArgList_, optionMap_, aliasMap_, heap, call, thrown,
          declFailed, nDecl, nParse, returned>>

(***************************************************************************)
(* Bounds of the model.                                                    *)
(***************************************************************************)
\* argumentNew calls of a run that goes on to parse command lines.
MaxDecl == 2
\* argumentNew calls of a run that only declares.
MaxDeclOnly == 3
\* cmdlineIs calls in one run.
MaxParse == 2
\* Tokens after the program name in one command line, when several are parsed.
MaxTokens == 3
\* Tokens after the program name, when one command line is parsed.
MaxLineTokens == 4
\* argumentNew calls of a run that mixes positional arguments and options.
MaxDeclPos == 3
\* Tokens after the program name, when a command line follows a refused one.
MaxRetryTokens == 2
\* Characters of the generated strings that are converted.
MaxValueLen == 3

(***************************************************************************)
(* Characters and strings.                                                 *)
(***************************************************************************)
\* What key[i] yields at i == size(): the terminating null character.
NUL == "NUL"

AlphaChars ==
    {"a", "b", "c", "d", "e", "f", "g", "h", "i", "j", "k", "l", "m",
     "n", "o", "p", "q", "r", "s", "t", "u", "v", "w", "x", "y", "z"}

isalpha(c) == c \in AlphaChars

\* key[i] of a std::string, 0-based.
CharAt(key, i) == IF i < Len(key) THEN key[i + 1] ELSE NUL

\* key.compare(0, n, lit) == 0: the first min(n, size) characters equal lit.
ComparePrefix(key, n, lit) ==
    LET m == IF n < Len(key) THEN n ELSE Len(key)
    IN  SubSeq(key, 1, m) = lit

isFlag_AnyDash(key) == ComparePrefix(key, 1, <<"-">>) /\ Len(key) >= 2

isFlag(key) ==
    \/ (ComparePrefix(key, 1, <<"-">>) /\ isalpha(CharAt(key, 1)))
    \/ (ComparePrefix(key, 2, <<"-", "-">>) /\ isalpha(CharAt(key, 2)))

DigitChars == <<"0", "1", "2", "3", "4", "5", "6", "7", "8", "9">>

\* std::to_string / operator<< of a non-negative integer: its decimal numeral.
RECURSIVE to_string(_)
to_string(n) ==
    IF n < 10 THEN <<DigitChars[n + 1]>>
    ELSE to_string(n \div 10) \o <<DigitChars[(n % 10) + 1]>>

strKeyStr(key) == key

strKeyIdx_NextSlot(idx) == <<"@">> \o to_string(idx + 1)

strKeyIdx(idx) == <<"@">> \o to_string(idx)

\* The lambda allToString of argumentNew, for T an unsigned integer type.
allToString(var) == to_string(var)

RECURSIVE strChoicesOf(_)
strChoicesOf(choices) ==
    IF choices = <<>> THEN <<>>
    ELSE <<allToString(Head(choices))>> \o strChoicesOf(Tail(choices))

Range(s) == {s[i] : i \in DOMAIN s}

(***************************************************************************)
(* Exceptions.                                                             *)
(***************************************************************************)
NoThrow == [type |-> "none"]

ArgKeyException(key) == [type |-> "ArgKeyException", key |-> key]

ArgValueException(val) == [type |-> "ArgValueException", val |-> val]

ArgPropertyException(name, property) ==
    [type |-> "ArgPropertyException", name |-> name, property |-> property]

(***************************************************************************)
(* 64-bit integers.  A uint64_t or int64_t is its 64 bits, held as four     *)
(* 16-bit limbs, the least significant first; an int64_t is in two's        *)
(* complement.                                                             *)
(***************************************************************************)
LimbBase == 256 * 256

WordZero == <<0, 0, 0, 0>>

WordOne == <<1, 0, 0, 0>>

\* ~0uLL
WordAllOnes == <<LimbBase - 1, LimbBase - 1, LimbBase - 1, LimbBase - 1>>

\* v * 10 + d on 64 bits, and what is carried out of them.
MulAdd10(v, d) ==
    LET t1 == v[1] * 10 + d
        t2 == v[2] * 10 + (t1 \div LimbBase)
        t3 == v[3] * 10 + (t2 \div LimbBase)
        t4 == v[4] * 10 + (t3 \div LimbBase)
    IN  [word |-> <<t1 % LimbBase, t2 % LimbBase, t3 % LimbBase, t4 % LimbBase>>,
         carry |-> t4 \div LimbBase]

\* v + w modulo 2^64.
WordAdd(v, w) ==
    LET t1 == v[1] + w[1]
        t2 == v[2] + w[2] + (t1 \div LimbBase)
        t3 == v[3] + w[3] + (t2 \div LimbBase)
        t4 == v[4] + w[4] + (t3 \div LimbBase)
    IN  <<t1 % LimbBase, t2 % LimbBase, t3 % LimbBase, t4 % LimbBase>>

\* ~v
WordNot(v) ==
    <<LimbBase - 1 - v[1], LimbBase - 1 - v[2],
      LimbBase - 1 - v[3], LimbBase - 1 - v[4]>>

\* -v modulo 2^64.
WordNeg(v) == WordAdd(WordNot(v), WordOne)

RECURSIVE BitAnd(_, _)
BitAnd(a, b) ==
    IF a = 0 \/ b = 0 THEN 0
    ELSE (a % 2) * (b % 2) + 2 * BitAnd(a \div 2, b \div 2)

\* v & w
WordAnd(v, w) ==
    <<BitAnd(v[1], w[1]), BitAnd(v[2], w[2]),
      BitAnd(v[3], w[3]), BitAnd(v[4], w[4])>>

\* 1uLL << n
WordShl1(n) ==
    LET bit == 2 ^ (n % 16)
    IN  <<IF n \div 16 = 0 THEN bit ELSE 0, IF n \div 16 = 1 THEN bit ELSE 0,
          IF n \div 16 = 2 THEN bit ELSE 0, IF n \div 16 = 3 THEN bit ELSE 0>>

\* v < w, both unsigned.
WordLess(v, w) ==
    \/ v[4] < w[4]
    \/ v[4] = w[4] /\ v[3] < w[3]
    \/ v[4] = w[4] /\ v[3] = w[3] /\ v[2] < w[2]
    \/ v[4] = w[4] /\ v[3] = w[3] /\ v[2] = w[2] /\ v[1] < w[1]

\* The quotient and the remainder of v by ten.
DivMod10(v) ==
    LET c4 == v[4]
        c3 == (c4 % 10) * LimbBase + v[3]
        c2 == (c3 % 10) * LimbBase + v[2]
        c1 == (c2 % 10) * LimbBase + v[1]
    IN  [q |-> <<c1 \div 10, c2 \div 10, c3 \div 10, c4 \div 10>>, r |-> c1 % 10]

\* operator<< of a uint64_t: its decimal numeral.
RECURSIVE allToStringUint64(_)
allToStringUint64(v) ==
    LET dm == DivMod10(v)
    IN  IF dm.q = WordZero THEN <<DigitChars[dm.r + 1]>>
        ELSE allToStringUint64(dm.q) \o <<DigitChars[dm.r + 1]>>

(***************************************************************************)
(* strtoull, strtoll and strtol in base 10.  Each yields the value, the    *)
(* offset `end` of the first character it did not use, and whether it set  *)
(* errno to ERANGE.                                                        *)
(***************************************************************************)
isspace(c) == c \in {" ", "\t", "\n"}

isdigit(c) == \E d \in 1..10 : DigitChars[d] = c

DigitValue(c) == (CHOOSE d \in 1..10 : DigitChars[d] = c) - 1

RECURSIVE SkipSpace(_, _)
SkipSpace(str, i) ==
    IF isspace(CharAt(str, i)) THEN SkipSpace(str, i + 1) ELSE i

\* The digits from offset i on, accumulated in 64 bits.
RECURSIVE ScanDigits(_, _, _, _)
ScanDigits(str, i, acc, overflow) ==
    IF isdigit(CharAt(str, i))
    THEN LET m == MulAdd10(acc, DigitValue(CharAt(str, i)))
         IN  ScanDigits(str, i + 1, m.word, overflow \/ m.carry # 0)
    ELSE [word |-> acc, overflow |-> overflow, end |-> i]

\* White space, a sign, digits: where the digits start, whether the sign is
\* '-', and the digits scanned.
ScanInteger(str) ==
    LET s0 == SkipSpace(str, 0)
        s1 == IF CharAt(str, s0) \in {"-", "+"} THEN s0 + 1 ELSE s0
    IN  [start |-> s1, neg |-> CharAt(str, s0) = "-",
         digits |-> ScanDigits(str, s1, WordZero, FALSE)]

strtoull(str) ==
    LET n == ScanInteger(str)
    IN  IF n.digits.end = n.start
        THEN [v |-> WordZero, end |-> 0, erange |-> FALSE]
        ELSE IF n.digits.overflow
        THEN [v |-> WordAllOnes, end |-> n.digits.end, erange |-> TRUE]
        ELSE [v |-> IF n.neg THEN WordNeg(n.digits.word) ELSE n.digits.word,
              end |-> n.digits.end, erange |-> FALSE]

\* strtol where long has `bits` bits; the long it returns is widened to the
\* int64_t of safeStrTo<int64_t>.
strtol(str, bits) ==
    LET n    == ScanInteger(str)
        min  == WordShl1(bits - 1)                        \* the magnitude of LONG_MIN
        max  == WordAdd(WordShl1(bits - 1), WordAllOnes)  \* LONG_MAX
    IN  IF n.digits.end = n.start
        THEN [v |-> WordZero, end |-> 0, erange |-> FALSE]
        ELSE IF n.neg
        THEN IF n.digits.overflow \/ WordLess(min, n.digits.word)
             THEN [v |-> WordNeg(min), end |-> n.digits.end, erange |-> TRUE]
             ELSE [v |-> WordNeg(n.digits.word), end |-> n.digits.end,
                   erange |-> FALSE]
        ELSE IF n.digits.overflow \/ WordLess(max, n.digits.word)
             THEN [v |-> max, end |-> n.digits.end, erange |-> TRUE]
             ELSE [v |-> n.digits.word, end |-> n.digits.end, erange |-> FALSE]

strtoll(str) == strtol(str, 64)

(***************************************************************************)
(* strtod and strtof, on strings without an exponent part (no e, E, p or   *)
(* P follows a digit in the strings of this model) and in lower case.  A   *)
(* float or double is held as the numeral it was read from; the numerals   *)
(* of this model are far inside the range of a float, so that ERANGE is    *)
(* never set.                                                              *)
(***************************************************************************)
DecDigits == {DigitChars[d] : d \in 1..10}

HexDigits == DecDigits \cup {"a", "b", "c", "d", "e", "f"}

RECURSIVE SkipWhile(_, _, _)
SkipWhile(str, i, chars) ==
    IF CharAt(str, i) \in chars THEN SkipWhile(str, i + 1, chars) ELSE i

IsPrefixAt(str, i, lit) ==
    i + Len(lit) <= Len(str) /\ SubSeq(str, i + 1, i + Len(lit)) = lit

\* Digits with at most one radix point, from offset `from`: the offset after
\* them, or `from` when no digit is among them.
Mantissa(str, from, digits) ==
    LET a == SkipWhile(str, from, digits)
        b == IF CharAt(str, a) = "." THEN SkipWhile(str, a + 1, digits) ELSE a
        n == (a - from) + (IF b > a THEN b - a - 1 ELSE 0)
    IN  IF n = 0 THEN from ELSE b

strtod(str) ==
    LET s0  == SkipSpace(str, 0)
        s1  == IF CharAt(str, s0) \in {"-", "+"} THEN s0 + 1 ELSE s0
        hex == IF IsPrefixAt(str, s1, <<"0", "x">>)
               THEN Mantissa(str, s1 + 2, HexDigits) ELSE s1 + 2
        end == IF IsPrefixAt(str, s1, <<"i", "n", "f", "i", "n", "i", "t", "y">>)
               THEN s1 + 8
               ELSE IF IsPrefixAt(str, s1, <<"i", "n", "f">>) THEN s1 + 3
               ELSE IF IsPrefixAt(str, s1, <<"n", "a", "n">>) THEN s1 + 3
               ELSE IF hex # s1 + 2 THEN hex
               ELSE Mantissa(str, s1, DecDigits)
    IN  IF end = s1
        THEN [v |-> [numeral |-> <<"0">>], end |-> 0, erange |-> FALSE]
        ELSE [v |-> [numeral |-> SubSeq(str, s0 + 1, end)], end |-> end,
              erange |-> FALSE]

strtof(str) == strtod(str)

(***************************************************************************)
(* class ArgValue.  value<T>() yields the value, or the exception thrown.  *)
(***************************************************************************)
\* safeStrTo, for the result r of strto(str_.c_str(), &end).
safeStrTo(str_, r) ==
    IF str_ = <<>> \/ CharAt(str_, r.end) # NUL \/ r.erange
    THEN [thrown |-> ArgValueException(str_)]
    ELSE [thrown |-> NoThrow, value |-> r.v]

SizeofUint32 == 4

\* static_cast to a 32-bit integer: the low 32 bits.
Low32(v) == <<v[1], v[2]>>

value_string(str_) == [thrown |-> NoThrow, value |-> str_]

value_uint64_Narrow(str_) ==
    LET r == safeStrTo(str_, strtoull(str_))
    IN  IF r.thrown # NoThrow THEN r
        ELSE [thrown |-> NoThrow, value |-> <<r.value[1], r.value[2], 0, 0>>]

value_uint64(str_) == safeStrTo(str_, strtoull(str_))

value_uint32_Truncating(str_) ==
    LET r == safeStrTo(str_, strtoull(str_))
    IN  IF r.thrown # NoThrow THEN r
        ELSE [thrown |-> NoThrow, value |-> Low32(r.value)]

value_uint32(str_) ==
    LET r    == safeStrTo(str_, strtoull(str_))
        mask == WordNot(WordAdd(WordShl1(8 * SizeofUint32), WordAllOnes))
    IN  IF r.thrown # NoThrow THEN r
        ELSE IF WordAnd(r.value, mask) # WordZero
        THEN [thrown |-> ArgValueException(str_)]
        ELSE [thrown |-> NoThrow, value |-> Low32(r.value)]

value_int64(str_) == safeStrTo(str_, strtoll(str_))

value_int32_NoSignTest(str_, bits) ==
    LET r    == safeStrTo(str_, strtol(str_, bits))
        mask == WordNot(WordAdd(WordShl1(8 * SizeofUint32 - 1), WordAllOnes))
    IN  IF r.thrown # NoThrow THEN r
        ELSE IF WordAnd(r.value, mask) # WordZero
        THEN [thrown |-> ArgValueException(str_)]
        ELSE [thrown |-> NoThrow, value |-> Low32(r.value)]

\* bits is the width of long, which strtol parses to.
value_int32(str_, bits) ==
    LET r    == safeStrTo(str_, strtol(str_, bits))
        mask == WordNot(WordAdd(WordShl1(8 * SizeofUint32 - 1), WordAllOnes))
    IN  IF r.thrown # NoThrow THEN r
        ELSE IF WordAnd(r.value, mask) # WordZero
                /\ WordAnd(WordNot(r.value), mask) # WordZero
        THEN [thrown |-> ArgValueException(str_)]
        ELSE [thrown |-> NoThrow, value |-> Low32(r.value)]

value_float(str_) == safeStrTo(str_, strtof(str_))

value_double(str_) == safeStrTo(str_, strtod(str_))

NumericTypes == {"uint64", "uint32", "int64", "int32", "float", "double"}

ValueTypes == {"string"} \cup NumericTypes

\* The widths of long on the platforms the header is built for.
LongBits == {32, 64}

ArgValueValue(T, str_, bits) ==
    CASE T = "string" -> value_string(str_)
      [] T = "uint64" -> value_uint64(str_)
      [] T = "uint32" -> value_uint32(str_)
      [] T = "int64"  -> value_int64(str_)
      [] T = "int32"  -> value_int32(str_, bits)
      [] T = "float"  -> value_float(str_)
      [] T = "double" -> value_double(str_)

\* What `returned` holds when nothing has been returned.
NoValue == [T |-> "none"]

(***************************************************************************)
(* class Argument.                                                         *)
(***************************************************************************)
\* -1uL, the expectCount of an option that takes any number of values.  It is
\* the largest size_t, so i < expectCount holds for every i a scan can reach.
Unlimited == -1

SizeLess_Inclusive(i, n) == n = Unlimited \/ i <= n

\* i < n on size_t.
SizeLess(i, n) == n = Unlimited \/ i < n

nullptr == 0

isChoice_AcceptAll(arg, value) == TRUE

isChoice(arg, value) ==
    arg.choices_ = {} \/ value \in arg.choices_

ArgumentCtor_DefaultFirst(name, expectCount, required, defaultValue, choices) ==
    LET obj == [name_ |-> name, expectCount_ |-> expectCount,
                required_ |-> required, defaultValue_ |-> defaultValue,
                choices_ |-> Range(choices),
                given_ |-> FALSE, argValueList_ |-> <<>>]
    IN  IF ~isChoice(obj, defaultValue)
        THEN [thrown |-> ArgPropertyException(name, "defaultValue")]
        ELSE IF ~isFlag(name) /\ (expectCount = 0 \/ expectCount = Unlimited)
        THEN [thrown |-> ArgPropertyException(name, "expectCount")]
        ELSE IF isFlag(name) /\ required /\ expectCount = 0
        THEN [thrown |-> ArgPropertyException(name, "required")]
        ELSE [thrown |-> NoThrow, obj |-> obj]

\* Argument::Argument: the object, or the exception its constructor throws.
ArgumentCtor_NoArityRule(name, expectCount, required, defaultValue, choices) ==
    LET obj == [name_ |-> name, expectCount_ |-> expectCount,
                required_ |-> required, defaultValue_ |-> defaultValue,
                choices_ |-> Range(choices),
                given_ |-> FALSE, argValueList_ |-> <<>>]
    IN  IF isFlag(name) /\ required /\ expectCount = 0
        THEN [thrown |-> ArgPropertyException(name, "required")]
        ELSE IF ~isChoice(obj, defaultValue)
        THEN [thrown |-> ArgPropertyException(name, "defaultValue")]
        ELSE [thrown |-> NoThrow, obj |-> obj]

ArgumentCtor(name, expectCount, required, defaultValue, choices) ==
    LET obj == [name_ |-> name, expectCount_ |-> expectCount,
                required_ |-> required, defaultValue_ |-> defaultValue,
                choices_ |-> Range(choices),
                given_ |-> FALSE, argValueList_ |-> <<>>]
    IN  IF ~isFlag(name) /\ (expectCount = 0 \/ expectCount = Unlimited)
        THEN [thrown |-> ArgPropertyException(name, "expectCount")]
        ELSE IF isFlag(name) /\ required /\ expectCount = 0
        THEN [thrown |-> ArgPropertyException(name, "required")]
        ELSE IF ~isChoice(obj, defaultValue)
        THEN [thrown |-> ArgPropertyException(name, "defaultValue")]
        ELSE [thrown |-> NoThrow, obj |-> obj]

argValueNew_Front(arg, value) ==
    [arg EXCEPT !.argValueList_ = <<value>> \o @]

argValueNew_Replace(arg, value) ==
    [arg EXCEPT !.argValueList_ = <<value>>]

argValueNew(arg, value) ==
    [arg EXCEPT !.argValueList_ = Append(@, value)]

argValueDelAll_ClearsChoices(arg) ==
    [arg EXCEPT !.argValueList_ = <<>>, !.given_ = FALSE, !.choices_ = {}]

argValueDelAll(arg) ==
    [arg EXCEPT !.argValueList_ = <<>>, !.given_ = FALSE]

givenIs(arg, given) == [arg EXCEPT !.given_ = given]

(***************************************************************************)
(* The registry.                                                           *)
(***************************************************************************)
\* map[key] = value of a std::unordered_map.
MapPut(map, key, value) ==
    [k \in (DOMAIN map) \cup {key} |-> IF k = key THEN value ELSE map[k]]

EmptyMap == [k \in {} |-> nullptr]

argumentByKey(key) ==
    IF key \in DOMAIN optionMap_ THEN optionMap_[key] ELSE nullptr

argumentByIdx_First(idx) ==
    IF positionalArgList_ = <<>> THEN nullptr ELSE positionalArgList_[1]

argumentByIdx(idx) ==
    IF idx >= Len(positionalArgList_) THEN nullptr
    ELSE positionalArgList_[idx + 1]

\* The shared_ptrs the registry holds: the Arguments that are still alive.
Declared == Range(positionalArgList_) \cup {optionMap_[k] : k \in DOMAIN optionMap_}

(***************************************************************************)
(* argumentNew.                                                            *)
(***************************************************************************)
\* The loop over the aliases: each alias is entered in both maps before the
\* next one is looked at, and a non-flag alias throws out of the loop.
RECURSIVE AliasLoop(_, _, _, _, _)
AliasLoop(om, am, aliases, ptr, name) ==
    IF aliases = <<>> THEN [optionMap |-> om, aliasMap |-> am, thrown |-> NoThrow]
    ELSE IF ~isFlag(Head(aliases))
    THEN [optionMap |-> om, aliasMap |-> am,
          thrown |-> ArgPropertyException(name, "alias")]
    ELSE AliasLoop(MapPut(om, Head(aliases), ptr), MapPut(am, Head(aliases), name),
                   Tail(aliases), ptr, name)

\* Whether the positional list lets a positional with this `required` follow.
PositionalOrderOk_NoCheck(required) == TRUE

PositionalOrderOk(required) ==
    ~(/\ positionalArgList_ # <<>>
      /\ ~heap[positionalArgList_[Len(positionalArgList_)]].required_
      /\ required)

argumentNew(name, expectCount, required, defaultValue, choices, aliases) ==
    LET made == ArgumentCtor(name, expectCount, required,
                             allToString(defaultValue), strChoicesOf(choices))
        ptr  == Len(heap) + 1
    IN  /\ nDecl' = nDecl + 1
        /\ UNCHANGED <<nParse, returned>>
        /\ call' = [op |-> "argumentNew", name |-> name, expectCount |-> expectCount,
                    required |-> required, defaultValue |-> defaultValue,
                    choices |-> choices, aliases |-> aliases]
        /\ IF made.thrown # NoThrow
           THEN /\ thrown' = made.thrown
                /\ UNCHANGED <<positionalArgList_, optionMap_, aliasMap_, heap>>
           ELSE IF isFlag(name)
           THEN LET r == AliasLoop(MapPut(optionMap_, name, ptr), aliasMap_,
                                   aliases, ptr, name)
                IN  /\ heap' = Append(heap, made.obj)
                    /\ optionMap_' = r.optionMap
                    /\ aliasMap_' = r.aliasMap
                    /\ thrown' = r.thrown
                    /\ UNCHANGED positionalArgList_
           ELSE IF ~PositionalOrderOk(made.obj.required_)
           THEN /\ thrown' = ArgPropertyException(name, "required")
                /\ UNCHANGED <<positionalArgList_, optionMap_, aliasMap_, heap>>
           ELSE /\ heap' = Append(heap, made.obj)
                /\ positionalArgList_' = Append(positionalArgList_, ptr)
                /\ thrown' = NoThrow
                /\ UNCHANGED <<optionMap_, aliasMap_>>
        /\ declFailed' = (declFailed \/ thrown' # NoThrow)

(***************************************************************************)
(* cmdlineIs.                                                              *)
(***************************************************************************)
\* The keys of optionMap_ that checkArgument and reset visit: those that
\* aliasMap_ does not list.
CanonicalKeys == {k \in DOMAIN optionMap_ : k \notin DOMAIN aliasMap_}

\* ArgumentParser::reset, on the Argument objects h.
reset_Nothing(h) == h

reset(h) ==
    LET cleared == Range(positionalArgList_)
                     \cup {optionMap_[k] : k \in CanonicalKeys}
    IN  [p \in DOMAIN h |-> IF p \in cleared THEN argValueDelAll(h[p]) ELSE h[p]]

RECURSIVE ConsumeValues_StoreFirst(_, _, _, _, _)
ConsumeValues_StoreFirst(h, argv, ptr, i, argi) ==
    IF SizeLess(i, h[ptr].expectCount_) /\ argi < Len(argv) /\ ~isFlag(argv[argi + 1])
    THEN LET stored == [h EXCEPT ![ptr] = argValueNew(@, argv[argi + 1])]
         IN  IF ~isChoice(h[ptr], argv[argi + 1])
             THEN [heap |-> stored, argi |-> argi,
                   thrown |-> ArgValueException(argv[argi + 1])]
             ELSE ConsumeValues_StoreFirst(stored, argv, ptr, i + 1, argi + 1)
    ELSE [heap |-> h, argi |-> argi, thrown |-> NoThrow]

\* The inner for loop of cmdlineIs: tokens argv[argi..] become values of the
\* Argument at ptr while i < expectCount, tokens remain and the token is no flag.
RECURSIVE ConsumeValues(_, _, _, _, _)
ConsumeValues(h, argv, ptr, i, argi) ==
    IF SizeLess(i, h[ptr].expectCount_) /\ argi < Len(argv) /\ ~isFlag(argv[argi + 1])
    THEN IF ~isChoice(h[ptr], argv[argi + 1])
         THEN [heap |-> h, argi |-> argi,
               thrown |-> ArgValueException(argv[argi + 1])]
         ELSE ConsumeValues([h EXCEPT ![ptr] = argValueNew(@, argv[argi + 1])],
                            argv, ptr, i + 1, argi + 1)
    ELSE [heap |-> h, argi |-> argi, thrown |-> NoThrow]

\* The while loop of cmdlineIs; argv here is the vector after the program name.
\* Beside the Arguments and the exception it yields how many iterations the
\* loop made and whether each one that did not throw moved argi forward,
\* both counted from the values iters and advanced it is entered with.
RECURSIVE ScanLoop(_, _, _, _, _, _)
ScanLoop(h, argv, argi, posArgIdx, iters, advanced) ==
    IF ~(argi < Len(argv))
    THEN [heap |-> h, thrown |-> NoThrow, iters |-> iters, advanced |-> advanced]
    ELSE
      LET tok    == argv[argi + 1]
          flag   == isFlag(tok)
          ptr    == IF flag THEN argumentByKey(tok) ELSE argumentByIdx(posArgIdx)
          argi1  == IF flag THEN argi + 1 ELSE argi
          pos1   == IF flag THEN posArgIdx ELSE posArgIdx + 1
      IN  IF ptr = nullptr
          THEN [heap |-> h,
                thrown |-> ArgKeyException(IF flag THEN strKeyStr(tok)
                                           ELSE strKeyIdx(posArgIdx)),
                iters |-> iters + 1, advanced |-> advanced]
          ELSE LET r == ConsumeValues(h, argv, ptr, 0, argi1)
               IN  IF r.thrown # NoThrow
                   THEN [heap |-> r.heap, thrown |-> r.thrown,
                         iters |-> iters + 1, advanced |-> advanced]
                   ELSE ScanLoop([r.heap EXCEPT ![ptr] = givenIs(@, TRUE)],
                                 argv, r.argi, pos1,
                                 iters + 1, advanced /\ r.argi > argi)

\* The values checkArgument appends to a non-required Argument of finite arity.
RECURSIVE FillDefault(_, _)
FillDefault(arg, idx) ==
    IF idx < arg.expectCount_
    THEN FillDefault(argValueNew(arg, arg.defaultValue_), idx + 1)
    ELSE arg

checkArgument_NoCountCheck(h, ptr) ==
    LET arg == h[ptr]
    IN  IF arg.required_
        THEN IF ~arg.given_
             THEN [heap |-> h, thrown |-> ArgPropertyException(arg.name_, "required")]
             ELSE [heap |-> h, thrown |-> NoThrow]
        ELSE IF arg.expectCount_ # Unlimited
             THEN [heap |-> [h EXCEPT ![ptr] = FillDefault(arg, Len(arg.argValueList_))],
                   thrown |-> NoThrow]
             ELSE [heap |-> h, thrown |-> NoThrow]

checkArgument_FillUnlimited(h, ptr) ==
    LET arg == h[ptr]
    IN  IF arg.required_
        THEN IF ~arg.given_
             THEN [heap |-> h, thrown |-> ArgPropertyException(arg.name_, "required")]
             ELSE IF arg.expectCount_ # Unlimited
                     /\ Len(arg.argValueList_) # arg.expectCount_
             THEN [heap |-> h,
                   thrown |-> ArgPropertyException(arg.name_, "expectCount")]
             ELSE [heap |-> h, thrown |-> NoThrow]
        ELSE IF arg.expectCount_ # Unlimited
             THEN [heap |-> [h EXCEPT ![ptr] = FillDefault(arg, Len(arg.argValueList_))],
                   thrown |-> NoThrow]
             ELSE [heap |-> [h EXCEPT ![ptr] = argValueNew(arg, arg.defaultValue_)],
                   thrown |-> NoThrow]

checkArgument(h, ptr) ==
    LET arg == h[ptr]
    IN  IF arg.required_
        THEN IF ~arg.given_
             THEN [heap |-> h, thrown |-> ArgPropertyException(arg.name_, "required")]
             ELSE IF arg.expectCount_ # Unlimited
                     /\ Len(arg.argValueList_) # arg.expectCount_
             THEN [heap |-> h,
                   thrown |-> ArgPropertyException(arg.name_, "expectCount")]
             ELSE [heap |-> h, thrown |-> NoThrow]
        ELSE IF arg.expectCount_ # Unlimited
             THEN [heap |-> [h EXCEPT ![ptr] = FillDefault(arg, Len(arg.argValueList_))],
                   thrown |-> NoThrow]
             ELSE [heap |-> h, thrown |-> NoThrow]

\* checkArgument on each pointer of ptrs in turn, up to the first that throws.
RECURSIVE CheckEach(_, _)
CheckEach(h, ptrs) ==
    IF ptrs = <<>> THEN [heap |-> h, thrown |-> NoThrow]
    ELSE LET r == checkArgument(h, Head(ptrs))
         IN  IF r.thrown # NoThrow THEN r ELSE CheckEach(r.heap, Tail(ptrs))

\* The orders in which a range-for may visit the canonical keys of the
\* unordered_map optionMap_ (the keys it skips have no effect on the visit).
KeyOrders ==
    {o \in [1..Cardinality(CanonicalKeys) -> CanonicalKeys] :
        \A i, j \in DOMAIN o : i # j => o[i] # o[j]}

\* cmdlineIs(argc, argv) from the Argument objects h: argv[0] is skipped, the
\* rest is scanned, then every Argument is checked; order is the iteration
\* order of optionMap_.
CmdlineIs(h, argv, order) ==
    LET scanned == ScanLoop(reset(h), Tail(argv), 0, 0, 0, TRUE)
    IN  IF scanned.thrown # NoThrow THEN scanned
        ELSE LET checked == CheckEach(scanned.heap,
                                      positionalArgList_
                                        \o [i \in DOMAIN order |-> optionMap_[order[i]]])
             IN  [heap |-> checked.heap, thrown |-> checked.thrown,
                  iters |-> scanned.iters, advanced |-> scanned.advanced]

cmdlineIs(argv, order) ==
    /\ nParse' = nParse + 1
    /\ \E r \in {CmdlineIs(heap, argv, order)} :
           /\ heap' = r.heap
           /\ thrown' = r.thrown
           /\ call' = [op |-> "cmdlineIs", argv |-> argv,
                       iters |-> r.iters, advanced |-> r.advanced,
                       after |-> thrown.type]
    /\ UNCHANGED <<positionalArgList_, optionMap_, aliasMap_, declFailed, nDecl,
                   returned>>

(***************************************************************************)
(* Read access.                                                            *)
(***************************************************************************)
\* argValueCount(key), for a key that is an option string or a positional index.
argValueCount(ptr) ==
    IF ptr = nullptr THEN 0 ELSE Len(heap[ptr].argValueList_)

ArgumentArgValue_Default(arg, idx) ==
    IF idx >= Len(arg.argValueList_) THEN arg.defaultValue_
    ELSE arg.argValueList_[idx + 1]

\* Argument::argValue(idx): the idx-th value, or ArgValue("") beyond the end.
ArgumentArgValue(arg, idx) ==
    IF idx >= Len(arg.argValueList_) THEN <<>> ELSE arg.argValueList_[idx + 1]

\* argValue<std::string>(key, valueIdx): the string, or the exception thrown.
argValue(ptr, key, valueIdx) ==
    IF ptr = nullptr THEN [thrown |-> ArgKeyException(key)]
    ELSE [thrown |-> NoThrow, value |-> ArgumentArgValue(heap[ptr], valueIdx)]

\* argValue<T>(key, valueIdx), for ptr == argument(key) and key == strKey(key).
argValueT(T, bits, ptr, key, valueIdx) ==
    IF ptr = nullptr THEN [thrown |-> ArgKeyException(key)]
    ELSE ArgValueValue(T, ArgumentArgValue(heap[ptr], valueIdx), bits)

optionGiven_Lenient(key) ==
    LET ptr == argumentByKey(key)
    IN  [thrown |-> NoThrow,
         value |-> IF ptr = nullptr THEN FALSE ELSE heap[ptr].given_]

optionGiven(key) ==
    LET ptr == argumentByKey(key)
    IN  IF ptr = nullptr THEN [thrown |-> ArgKeyException(strKeyStr(key))]
        ELSE [thrown |-> NoThrow, value |-> heap[ptr].given_]

(***************************************************************************)
(* Strings and arguments the callers of the model pass.                    *)
(***************************************************************************)
StrP == <<"p">>
StrA == <<"-", "a">>
StrB == <<"-", "-", "b">>
StrX == <<"x">>

\* The arguments of the argumentNew calls of a run that only declares.
DeclNames == {StrP, StrA, StrB}
DeclCounts == {0, 1, Unlimited}
\* <<defaultValue, choices>>
DeclDefaultChoices == {<<9, <<>>>>, <<1, <<1>>>>, <<9, <<1>>>>}
DeclAliases == {<<>>, <<StrB>>, <<StrX>>, <<StrB, StrX>>}

Init ==
    /\ positionalArgList_ = <<>>
    /\ optionMap_ = EmptyMap
    /\ aliasMap_ = EmptyMap
    /\ heap = <<>>
    /\ call = [op |-> "none"]
    /\ thrown = NoThrow
    /\ declFailed = FALSE
    /\ nDecl = 0
    /\ nParse = 0
    /\ returned = NoValue

Declare ==
    /\ nDecl < MaxDeclOnly
    /\ \E name \in DeclNames, expectCount \in DeclCounts, required \in BOOLEAN,
          dc \in DeclDefaultChoices, aliases \in DeclAliases :
           argumentNew(name, expectCount, required, dc[1], dc[2], aliases)

NextDecl == Declare

SpecDecl == Init /\ [][NextDecl]_vars

\* The tokens of the command lines.
Str1 == <<"1">>
Str5 == <<"5">>
StrProg == <<"p", "r", "o", "g">>
Tokens == {StrA, StrB, Str1, Str5}

TokenVectors == UNION {[1..n -> Tokens] : n \in 0..MaxTokens}

\* The declarations of the programs that go on to parse a command line:
\* <<name, expectCount, required, defaultValue, choices, aliases>>.
ScanDeclarations ==
    ({StrP} \X {1, 2} \X BOOLEAN \X {9} \X {<<>>, <<1, 9>>} \X {<<>>})
      \cup ({StrA} \X {0, 1, Unlimited} \X BOOLEAN \X {9} \X {<<>>}
               \X {<<>>, <<StrB>>})
      \cup ({StrB} \X {1} \X BOOLEAN \X {9} \X {<<1, 9>>} \X {<<>>})

\* A program declares its arguments before it parses a command line.
DeclareForScan ==
    /\ nDecl < MaxDecl
    /\ nParse = 0
    /\ \E d \in ScanDeclarations :
           argumentNew(d[1], d[2], d[3], d[4], d[5], d[6])

\* A program that parses up to MaxParse command lines with the same parser.
Scan ==
    /\ nParse < MaxParse
    /\ \E order \in KeyOrders, tokens \in TokenVectors :
           cmdlineIs(<<StrProg>> \o tokens, order)

Next == DeclareForScan \/ Scan

Spec == Init /\ [][Next]_vars

\* A program that parses one, longer, command line, in which a negative
\* number may occur.
StrM5 == <<"-", "5">>
LineTokens == Tokens \cup {StrM5}
LineVectors == UNION {[1..n -> LineTokens] : n \in 0..MaxLineTokens}

ScanLine ==
    /\ nParse = 0
    /\ \E order \in KeyOrders, tokens \in LineVectors :
           cmdlineIs(<<StrProg>> \o tokens, order)

NextLine == DeclareForScan \/ ScanLine

SpecLine == Init /\ [][NextLine]_vars

\* A program that parses further short command lines with the same parser,
\* whatever became of the one before.
RetryVectors == UNION {[1..n -> Tokens] : n \in 0..MaxRetryTokens}

ScanRetry ==
    /\ nParse < MaxParse
    /\ \E order \in KeyOrders, tokens \in RetryVectors :
           cmdlineIs(<<StrProg>> \o tokens, order)

NextRetry == DeclareForScan \/ ScanRetry

SpecRetry == Init /\ [][NextRetry]_vars

\* A program with several positional arguments among its options, as in the
\* tests cmdlineIs and cmdlineIsOptionInMiddleOfPosArg.
PosDeclarations ==
    ({StrP} \X {0, 1, 2} \X {TRUE} \X {9} \X {<<>>} \X {<<>>})
      \cup ({StrX} \X {1, 2} \X BOOLEAN \X {9} \X {<<>>} \X {<<>>})
      \cup ({StrA} \X {0, 1, Unlimited} \X {FALSE} \X {9} \X {<<>>} \X {<<>>})

DeclareForPos ==
    /\ nDecl < MaxDeclPos
    /\ nParse = 0
    /\ \E d \in PosDeclarations :
           argumentNew(d[1], d[2], d[3], d[4], d[5], d[6])

NextPos == DeclareForPos \/ ScanLine

SpecPos == Init /\ [][NextPos]_vars

\* The strings of the value cells that are converted: every string of up to
\* MaxValueLen characters of ValueChars, and numerals at the limits of the
\* integer types.
ValueChars == {"0", "1", "9", "-", "+", " ", "x", "."}

LimitStrings ==
    {<<"2", "1", "4", "7", "4", "8", "3", "6", "4", "7">>,
     <<"2", "1", "4", "7", "4", "8", "3", "6", "4", "8">>,
     <<"-", "2", "1", "4", "7", "4", "8", "3", "6", "4", "8">>,
     <<"-", "2", "1", "4", "7", "4", "8", "3", "6", "4", "9">>,
     <<"4", "2", "9", "4", "9", "6", "7", "2", "9", "5">>,
     <<"4", "2", "9", "4", "9", "6", "7", "2", "9", "6">>,
     <<"-", "4", "2", "9", "4", "9", "6", "7", "2", "9", "5">>,
     <<"-", "4", "2", "9", "4", "9", "6", "7", "2", "9", "6">>,
     <<"1", "8", "4", "4", "6", "7", "4", "4", "0", "7", "3", "7", "0", "9", "5", "5", "1", "6", "1", "5">>,
     <<"1", "8", "4", "4", "6", "7", "4", "4", "0", "7", "3", "7", "0", "9", "5", "5", "1", "6", "1", "6">>,
     <<"-", "1", "8", "4", "4", "6", "7", "4", "4", "0", "7", "3", "7", "0", "9", "5", "5", "1", "6", "1", "5">>,
     <<"9", "2", "2", "3", "3", "7", "2", "0", "3", "6", "8", "5", "4", "7", "7", "5", "8", "0", "7">>,
     <<"9", "2", "2", "3", "3", "7", "2", "0", "3", "6", "8", "5", "4", "7", "7", "5", "8", "0", "8">>,
     <<"-", "9", "2", "2", "3", "3", "7", "2", "0", "3", "6", "8", "5", "4", "7", "7", "5", "8", "0", "8">>,
     <<"-", "9", "2", "2", "3", "3", "7", "2", "0", "3", "6", "8", "5", "4", "7", "7", "5", "8", "0", "9">>,
     <<"9", "9", "9", "9", "9", "9", "9", "9", "9", "9", "9", "9", "9", "9", "9", "9", "9", "9", "9", "9">>,
     <<"0", "0", "0", "0", "0", "0", "0", "0", "0", "0", "0", "0", "0", "0", "0", "0", "0", "0", "0", "0", "0", "0", "1">>,
     <<"6", "5", "5", "3", "5">>,
     <<"6", "5", "5", "3", "6">>,
     <<"1", "2", "3", "4">>,
     <<"-", "1", "2", "3", "4">>,
     <<"1", "2", "x", "3", "4">>,
     <<"x", "1", "2", "3", "4">>,
     <<"1", "2", "3", "4", "x">>,
     <<" ", "1", "2", "3", "4">>,
     <<"1", "2", ".", "3", "4">>,
     <<"-", "1", "2", ".", "3", "4">>,
     <<"0", "x", "1", "f">>,
     <<"i", "n", "f", "i", "n", "i", "t", "y">>,
     <<"-", "i", "n", "f">>,
     <<"n", "a", "n">>,
     <<"i", "n", "f", "x">>}

ValueStrings ==
    UNION {[1..n -> ValueChars] : n \in 0..MaxValueLen} \cup LimitStrings

\* ArgValue(str) has been constructed.
InitValue ==
    /\ positionalArgList_ = <<>>
    /\ optionMap_ = EmptyMap
    /\ aliasMap_ = EmptyMap
    /\ heap = <<>>
    /\ call \in {[op |-> "ArgValue", str_ |-> str] : str \in ValueStrings}
    /\ thrown = NoThrow
    /\ declFailed = FALSE
    /\ nDecl = 0
    /\ nParse = 0
    /\ returned = NoValue

\* ArgValue::value<T>() on the cell, on a platform whose long has `bits` bits.
value(T, bits) ==
    LET r == ArgValueValue(T, call.str_, bits)
    IN  /\ call' = [op |-> "value", T |-> T, long |-> bits, str_ |-> call.str_]
        /\ thrown' = r.thrown
        /\ returned' = IF r.thrown = NoThrow THEN [T |-> T, v |-> r.value]
                       ELSE NoValue
        /\ UNCHANGED <<positionalArgList_, optionMap_, aliasMap_, heap,
                       declFailed, nDecl, nParse>>

Convert ==
    /\ call.op = "ArgValue"
    /\ \E T \in ValueTypes, bits \in LongBits : value(T, bits)

NextValue == Convert

SpecValue == InitValue /\ [][NextValue]_vars

(***************************************************************************)
(* Properties.                                                             *)
(***************************************************************************)
\* The tokens of the last command line, after the program name.
LastTokens == Tail(call.argv)

Parsed == call.op = "cmdlineIs"

ParsedOk == Parsed /\ thrown = NoThrow

\* The Argument objects as their constructors left them.
FreshHeap == [p \in DOMAIN heap |-> argValueDelAll(heap[p])]

SomeOrder == CHOOSE o \in KeyOrders : TRUE

FiniteArity(arg) == arg.expectCount_ # Unlimited

\* C1: when two successive cmdlineIs calls succeed on a registry built by
\* successful argumentNew calls, every argument holds after the second call
\* the values and the given flag that the second command line alone gives it
\* on a fresh copy of the registry.
C1_ReparseReplacesAll ==
    [][(ParsedOk /\ ~declFailed /\ call'.op = "cmdlineIs" /\ thrown' = NoThrow)
         => LET fresh == CmdlineIs(FreshHeap, call'.argv, SomeOrder).heap
            IN  \A ptr \in Declared :
                    /\ heap'[ptr].argValueList_ = fresh[ptr].argValueList_
                    /\ heap'[ptr].given_ = fresh[ptr].given_]_vars

\* C2: after a successful cmdlineIs every declared argument that is not
\* required and has a finite arity holds exactly expectCount values.
C2_NonRequiredFiniteHoldsExpectCount ==
    ParsedOk =>
        \A ptr \in Declared :
            (~heap[ptr].required_ /\ FiniteArity(heap[ptr]))
                => Len(heap[ptr].argValueList_) = heap[ptr].expectCount_

\* C3: cmdlineIs succeeds only if every required argument was given and, when
\* its arity is finite, holds exactly expectCount values; a property error it
\* raises names a required argument, with 'required' when that argument was not
\* given and 'expectCount' when it was given with another number of values.
C3_RequiredSatisfiedOrPropertyError ==
    Parsed =>
        /\ thrown = NoThrow =>
              \A ptr \in Declared :
                  heap[ptr].required_ =>
                      /\ heap[ptr].given_
                      /\ FiniteArity(heap[ptr]) =>
                            Len(heap[ptr].argValueList_) = heap[ptr].expectCount_
        /\ thrown.type = "ArgPropertyException" =>
              \E ptr \in Declared :
                  /\ heap[ptr].required_
                  /\ heap[ptr].name_ = thrown.name
                  /\ \/ thrown.property = "required" /\ ~heap[ptr].given_
                     \/ /\ thrown.property = "expectCount"
                        /\ heap[ptr].given_
                        /\ Len(heap[ptr].argValueList_) # heap[ptr].expectCount_

\* C4: an argumentNew call that fails with a property error leaves the
\* positional list, the option map and the alias map as they were.
C4_FailedDeclarationChangesNothing ==
    [][(call'.op = "argumentNew" /\ thrown'.type = "ArgPropertyException")
         => UNCHANGED registry]_vars

\* C5: after successful declarations only, every alias key of the alias map
\* and the canonical name it is recorded for yield the same Argument in the
\* option map.
C5_AliasYieldsCanonicalArgument ==
    ~declFailed =>
        \A a \in DOMAIN aliasMap_ :
            /\ a \in DOMAIN optionMap_
            /\ aliasMap_[a] \in DOMAIN optionMap_
            /\ optionMap_[a] = optionMap_[aliasMap_[a]]

\* The keys of the option named n: n and the aliases recorded for it.
KeysOf(n) == {n} \cup {a \in DOMAIN aliasMap_ : aliasMap_[a] = n}

ValueIndices == 0..MaxLineTokens

\* C6: after a cmdlineIs in which a key of an option declared with aliases
\* appears as a token, argValueCount, optionGiven and argValue give the same
\* results for the canonical name and for each alias.
C6_AliasReadsAsCanonical ==
    (Parsed /\ ~declFailed) =>
        \A a \in DOMAIN aliasMap_ :
            LET n == aliasMap_[a]
            IN  (KeysOf(n) \cap Range(LastTokens) # {}) =>
                    /\ argValueCount(argumentByKey(a)) = argValueCount(argumentByKey(n))
                    /\ optionGiven(a).thrown = NoThrow
                    /\ optionGiven(n).thrown = NoThrow
                    /\ optionGiven(a).value = optionGiven(n).value
                    /\ \A i \in ValueIndices :
                           argValue(argumentByKey(a), strKeyStr(a), i).value
                             = argValue(argumentByKey(n), strKeyStr(n), i).value

\* The flag-shaped tokens of the last command line that are no key of the
\* option map, by position.
UndeclaredFlagAt ==
    {i \in DOMAIN LastTokens :
        isFlag(LastTokens[i]) /\ LastTokens[i] \notin DOMAIN optionMap_}

RECURSIVE SumExpectCount(_)
SumExpectCount(ptrs) ==
    IF ptrs = <<>> THEN 0
    ELSE heap[Head(ptrs)].expectCount_ + SumExpectCount(Tail(ptrs))

TooManyPositionals ==
    ArgKeyException(<<"@">> \o <<DigitChars[Len(positionalArgList_) + 1]>>)

\* C7: a key error of cmdlineIs carries the first flag-shaped token that is no
\* key of the option map, or '@k' for a non-flag token met when the k declared
\* positionals have been matched; a command line with an undeclared flag token
\* is aborted during the scan; a command line of non-flag tokens that passes
\* the choice checks is aborted with '@k' exactly when it has more tokens than
\* the positionals take.
C7_KeyErrorCarriesOffendingKey ==
    Parsed =>
        /\ thrown.type = "ArgKeyException" =>
              \/ /\ UndeclaredFlagAt # {}
                 /\ thrown.key =
                      LastTokens[CHOOSE i \in UndeclaredFlagAt :
                                    \A j \in UndeclaredFlagAt : i <= j]
              \/ /\ thrown = TooManyPositionals
                 /\ \E i \in DOMAIN LastTokens : ~isFlag(LastTokens[i])
        /\ UndeclaredFlagAt # {} =>
              thrown.type \in {"ArgKeyException", "ArgValueException"}
        /\ ((\A i \in DOMAIN LastTokens : ~isFlag(LastTokens[i]))
               /\ thrown.type # "ArgValueException") =>
              (thrown = TooManyPositionals
                 <=> Len(LastTokens) > SumExpectCount(positionalArgList_))

\* C8: a value error of cmdlineIs carries a non-flag token of the command line
\* that the non-empty choice set of some argument excludes; no argument with a
\* non-empty choice set ever holds a value outside it; and no value error is
\* raised when every choice set is empty.
C8_ChoicesCheckedBeforeStored ==
    /\ (Parsed /\ thrown.type = "ArgValueException") =>
          /\ thrown.val \in Range(LastTokens)
          /\ ~isFlag(thrown.val)
          /\ \E ptr \in Declared :
                heap[ptr].choices_ # {} /\ thrown.val \notin heap[ptr].choices_
    /\ \A ptr \in Declared :
          heap[ptr].choices_ # {} =>
              \A i \in DOMAIN heap[ptr].argValueList_ :
                  heap[ptr].argValueList_[i] \in heap[ptr].choices_
    /\ (Parsed /\ \A ptr \in Declared : heap[ptr].choices_ = {}) =>
          thrown.type # "ArgValueException"

\* The five declaration rules, for the arguments c of an argumentNew call.
IsOptionName(name) ==
    /\ Len(name) >= 2
    /\ name[1] = "-"
    /\ \/ name[2] \in AlphaChars
       \/ Len(name) >= 3 /\ name[2] = "-" /\ name[3] \in AlphaChars

Rule1(c) == ~IsOptionName(c.name) /\ c.expectCount \in {0, Unlimited}

Rule2(c) == IsOptionName(c.name) /\ c.expectCount = 0 /\ c.required

Rule3(c) ==
    /\ c.choices # <<>>
    /\ \A i \in DOMAIN c.choices : c.choices[i] # c.defaultValue

Rule4(c) ==
    /\ ~IsOptionName(c.name)
    /\ c.required
    /\ positionalArgList_ # <<>>
    /\ ~heap[positionalArgList_[Len(positionalArgList_)]].required_

Rule5(c) ==
    IsOptionName(c.name) /\ \E i \in DOMAIN c.aliases : ~IsOptionName(c.aliases[i])

FirstRuleViolated(c) ==
    IF Rule1(c) THEN "expectCount"
    ELSE IF Rule2(c) THEN "required"
    ELSE IF Rule3(c) THEN "defaultValue"
    ELSE IF Rule4(c) THEN "required"
    ELSE IF Rule5(c) THEN "alias"
    ELSE "none"

\* C9: argumentNew succeeds exactly when none of the five declaration rules
\* is violated, and otherwise raises the property error of the earliest
\* violated rule, in the order expectCount, required (pure flag),
\* defaultValue, required (positional order), alias.
C9_FirstViolatedRuleIsReported ==
    [][call'.op = "argumentNew"
         => thrown' = IF FirstRuleViolated(call') = "none" THEN NoThrow
                      ELSE ArgPropertyException(call'.name, FirstRuleViolated(call'))]_vars

\* C10: the non-required positional arguments form a suffix of the positional
\* list: no required positional follows a non-required one.
C10_NonRequiredPositionalsAreSuffix ==
    \A i, j \in DOMAIN positionalArgList_ :
        (i < j /\ ~heap[positionalArgList_[i]].required_)
            => ~heap[positionalArgList_[j]].required_

\* The keys of the option map that hold the Argument that key k holds.
KeysOfArgument(k) == {j \in DOMAIN optionMap_ : optionMap_[j] = optionMap_[k]}

\* n copies of the string v.
Copies(n, v) == [i \in 1..n |-> v]

\* C11: after a successful cmdlineIs, optionGiven(k) is true exactly when a key
\* of that option occurs as a token of the command line, whether or not a
\* value follows it; an option that is not required, has a finite arity and
\* did not occur is not given and holds expectCount copies of its default.
C11_GivenIffFlagOccurred ==
    ParsedOk =>
        \A k \in DOMAIN optionMap_ :
            LET occurred == \E i \in DOMAIN LastTokens :
                                LastTokens[i] \in KeysOfArgument(k)
                arg == heap[optionMap_[k]]
            IN  /\ optionGiven(k).thrown = NoThrow
                /\ optionGiven(k).value = occurred
                /\ (~occurred /\ ~arg.required_ /\ FiniteArity(arg)) =>
                       arg.argValueList_ = Copies(arg.expectCount_, arg.defaultValue_)

\* Strings on either side of the line between flags and values.
FlagSamples ==
    {<<>>, <<"-">>, <<"-", "-">>, <<"-", "a">>, <<"-", "-", "b">>,
     <<"-", "5">>, <<"-", "-", "5">>, <<"-", "1", ".", "5">>,
     <<"-", "-", "-", "a">>, <<"-", "a", "5">>, <<"-", "-", "b", "c">>,
     <<"a">>, <<"a", "-", "b">>, <<"-", ".">>, <<"5">>, <<"-", "-", "-">>}

\* C12: a string is classified as a flag exactly when it is '-' or '--'
\* immediately followed by an alphabetic character; a key error that carries
\* a token of the command line carries a flag, so no other token is looked up
\* as an option; and after a successful cmdlineIs every non-flag token of the
\* command line, a dash-digit token included, is a value of some argument.
C12_FlagIffDashAlpha ==
    /\ \A s \in FlagSamples : isFlag(s) <=> IsOptionName(s)
    /\ Parsed =>
          /\ \A i \in DOMAIN LastTokens :
                isFlag(LastTokens[i]) <=> IsOptionName(LastTokens[i])
          /\ (thrown.type = "ArgKeyException" /\ thrown.key \in Range(LastTokens))
                => IsOptionName(thrown.key)
          /\ thrown = NoThrow =>
                \A i \in DOMAIN LastTokens :
                    ~IsOptionName(LastTokens[i]) =>
                        \E ptr \in Declared :
                            LastTokens[i] \in Range(heap[ptr].argValueList_)

\* C13: cmdlineIs succeeds only if every required argument of unlimited arity
\* has collected at least one value.
C13_UnlimitedRequiredHoldsAValue ==
    ParsedOk =>
        \A ptr \in Declared :
            (heap[ptr].required_ /\ ~FiniteArity(heap[ptr]))
                => Len(heap[ptr].argValueList_) >= 1

\* The command line cut at its flags: each run is a flag (<<>> for the run
\* that precedes the first flag) and the non-flag tokens that follow it.
RECURSIVE Runs(_, _)
Runs(toks, acc) ==
    IF toks = <<>> THEN acc
    ELSE IF IsOptionName(Head(toks))
    THEN Runs(Tail(toks), Append(acc, [flag |-> Head(toks), vals |-> <<>>]))
    ELSE Runs(Tail(toks),
              [acc EXCEPT ![Len(acc)].vals = Append(@, Head(toks))])

Min(a, b) == IF a < b THEN a ELSE b

\* What an option leaves of the tokens that follow its flag.
LeftByOption(run) ==
    IF run.flag = <<>> \/ run.flag \notin DOMAIN optionMap_ THEN run.vals
    ELSE LET n == heap[optionMap_[run.flag]].expectCount_
             take == IF n = Unlimited THEN Len(run.vals) ELSE Min(n, Len(run.vals))
         IN  SubSeq(run.vals, take + 1, Len(run.vals))

\* vals cut into the pieces that the positionals k, k + 1, ... take in turn.
RECURSIVE Pieces(_, _)
Pieces(vals, k) ==
    IF vals = <<>> THEN <<>>
    ELSE LET n == IF k <= Len(positionalArgList_)
                  THEN Min(heap[positionalArgList_[k]].expectCount_, Len(vals))
                  ELSE Len(vals)
         IN  <<SubSeq(vals, 1, n)>> \o Pieces(SubSeq(vals, n + 1, Len(vals)), k + 1)

RECURSIVE Matches(_, _)
Matches(runs, k) ==
    IF runs = <<>> THEN <<>>
    ELSE LET here == Pieces(LeftByOption(Head(runs)), k)
         IN  here \o Matches(Tail(runs), k + Len(here))

\* The positional matches of the last command line, in order.
PositionalMatches ==
    Matches(Runs(LastTokens, <<[flag |-> <<>>, vals |-> <<>>]>>), 1)

\* C14: after a successful cmdlineIs the k-th positional match of the command
\* line, counted over the whole line whatever flags lie in between, is what
\* the k-th declared positional holds (followed by defaults where it is not
\* required), and the positionals beyond the last match were not given.
C14_PositionalsMatchedInOrder ==
    ParsedOk =>
        /\ Len(PositionalMatches) <= Len(positionalArgList_)
        /\ \A k \in DOMAIN positionalArgList_ :
              LET arg == heap[positionalArgList_[k]]
                  got == IF k <= Len(PositionalMatches)
                         THEN PositionalMatches[k] ELSE <<>>
              IN  /\ arg.given_ = (k <= Len(PositionalMatches))
                  /\ arg.argValueList_ =
                       got \o (IF arg.required_ THEN <<>>
                               ELSE Copies(arg.expectCount_ - Len(got),
                                           arg.defaultValue_))

\* The keys and the positional indices that the reads are tried with.
ProbeKeys == {StrA, StrB, StrP, StrX, StrM5, <<>>}

ProbeIndices == 0..MaxDeclPos

\* '@n' for a positional index n below ten.
AtIndex(n) == <<"@", DigitChars[n + 1]>>

\* C15: in every state, for an option string that is no key of the option map
\* and for a positional index at or beyond the number of declared positionals,
\* argValueCount returns 0, and argValue and optionGiven fail with a key error
\* that carries the option string, or '@index' for the index.
C15_UndeclaredKeyReads ==
    /\ \A k \in ProbeKeys :
          k \notin DOMAIN optionMap_ =>
              /\ argValueCount(argumentByKey(k)) = 0
              /\ optionGiven(k) = [thrown |-> ArgKeyException(k)]
              /\ \A i \in ValueIndices :
                    argValue(argumentByKey(k), strKeyStr(k), i)
                      = [thrown |-> ArgKeyException(k)]
    /\ \A n \in ProbeIndices :
          n >= Len(positionalArgList_) =>
              /\ argValueCount(argumentByIdx(n)) = 0
              /\ \A i \in ValueIndices :
                    argValue(argumentByIdx(n), strKeyIdx(n), i)
                      = [thrown |-> ArgKeyException(AtIndex(n))]

\* What argValue<T> yields for the argument at ptr, read under key, at the
\* value indices at and after its value count.
ReadsBeyondCount(T, bits, ptr, key) ==
    {argValueT(T, bits, ptr, key, argValueCount(ptr) + d) : d \in 0..1}

\* C16: for a declared key and a value index at or beyond the value count of
\* its argument, argValue raises no key error: for the string type it returns
\* the empty string, and for every numeric type it raises the value error of
\* the conversion of the empty string.
C16_ReadBeyondCountIsEmptyCell ==
    LET ok(ptr, key) ==
            /\ ReadsBeyondCount("string", 64, ptr, key)
                 = {[thrown |-> NoThrow, value |-> <<>>]}
            /\ \A T \in NumericTypes, bits \in LongBits :
                  ReadsBeyondCount(T, bits, ptr, key)
                    = {[thrown |-> ArgValueException(<<>>)]}
    IN  /\ \A k \in DOMAIN optionMap_ : ok(argumentByKey(k), strKeyStr(k))
        /\ \A n \in ProbeIndices :
              n < Len(positionalArgList_) => ok(argumentByIdx(n), strKeyIdx(n))

\* Decimal numerals, compared as strings of digits.
IsDigits(s) == s # <<>> /\ \A i \in DOMAIN s : s[i] \in Range(DigitChars)

RECURSIVE StripZeros(_)
StripZeros(d) ==
    IF Len(d) > 1 /\ Head(d) = "0" THEN StripZeros(Tail(d)) ELSE d

DigitOf(c) == CHOOSE d \in 0..9 : DigitChars[d + 1] = c

RECURSIVE LexLeq(_, _)
LexLeq(a, b) ==
    \/ a = <<>>
    \/ DigitOf(Head(a)) < DigitOf(Head(b))
    \/ Head(a) = Head(b) /\ LexLeq(Tail(a), Tail(b))

\* a <= b, for numerals without a redundant leading zero.
DecLeq(a, b) == Len(a) < Len(b) \/ (Len(a) = Len(b) /\ LexLeq(a, b))

\* A '-' or nothing, then digits.
IsInteger(s) == IsDigits(s) \/ (s # <<>> /\ Head(s) = "-" /\ IsDigits(Tail(s)))

\* The numeral of the integer that s denotes, without redundant characters.
Canonical(s) ==
    IF Head(s) = "-"
    THEN IF StripZeros(Tail(s)) = <<"0">> THEN <<"0">>
         ELSE <<"-">> \o StripZeros(Tail(s))
    ELSE StripZeros(s)

Int32MaxNumeral == <<"2", "1", "4", "7", "4", "8", "3", "6", "4", "7">>

Int32MinMagnitude == <<"2", "1", "4", "7", "4", "8", "3", "6", "4", "8">>

Uint32MaxNumeral == <<"4", "2", "9", "4", "9", "6", "7", "2", "9", "5">>

Uint64MaxNumeral == <<"1", "8", "4", "4", "6", "7", "4", "4", "0", "7", "3", "7", "0", "9", "5", "5", "1", "6", "1", "5">>

\* Whether the integer that s denotes lies in [-2^31, 2^31 - 1].
InInt32Range(s) ==
    IF Head(s) = "-" THEN DecLeq(StripZeros(Tail(s)), Int32MinMagnitude)
    ELSE DecLeq(StripZeros(s), Int32MaxNumeral)

\* The numeral of a 64-bit word read as signed, and of 32 bits read as signed
\* and as unsigned.
Int64Numeral(v) ==
    IF v[4] >= LimbBase \div 2 THEN <<"-">> \o allToStringUint64(WordNeg(v))
    ELSE allToStringUint64(v)

Int32Numeral(v) ==
    IF v[2] >= LimbBase \div 2
    THEN Int64Numeral(<<v[1], v[2], LimbBase - 1, LimbBase - 1>>)
    ELSE allToStringUint64(<<v[1], v[2], 0, 0>>)

Uint32Numeral(v) == allToStringUint64(<<v[1], v[2], 0, 0>>)

Converted(T) == call.op = "value" /\ call.T = T

\* C17: value<int32_t>() succeeds exactly when the 64-bit conversion of the
\* token succeeds with a value in [-2^31, 2^31 - 1], and returns that value
\* unchanged; it fails with a value error otherwise; for a token that is an
\* optional '-' and digits it succeeds exactly when the integer denoted lies
\* in that range, and returns it.
C17_Int32InRangeOrError ==
    Converted("int32") =>
        LET wide == value_int64(call.str_)
            ok   == thrown = NoThrow
        IN  /\ thrown \in {NoThrow, ArgValueException(call.str_)}
            /\ ok <=> (wide.thrown = NoThrow
                         /\ InInt32Range(Int64Numeral(wide.value)))
            /\ ok => Int32Numeral(returned.v) = Int64Numeral(wide.value)
            /\ IsInteger(call.str_) =>
                  /\ ok <=> InInt32Range(call.str_)
                  /\ ok => Int32Numeral(returned.v) = Canonical(call.str_)

\* C18: value<uint32_t>() succeeds exactly when the unsigned 64-bit conversion
\* of the token succeeds with a value of at most 4294967295, and returns that
\* value unchanged; it fails with a value error otherwise; for a token of
\* digits it succeeds exactly when the number denoted is at most 4294967295.
C18_Uint32NeverWraps ==
    Converted("uint32") =>
        LET wide == value_uint64(call.str_)
            ok   == thrown = NoThrow
        IN  /\ thrown \in {NoThrow, ArgValueException(call.str_)}
            /\ ok <=> (wide.thrown = NoThrow
                         /\ DecLeq(allToStringUint64(wide.value), Uint32MaxNumeral))
            /\ ok => Uint32Numeral(returned.v) = allToStringUint64(wide.value)
            /\ IsDigits(call.str_) =>
                  /\ ok <=> DecLeq(StripZeros(call.str_), Uint32MaxNumeral)
                  /\ ok => Uint32Numeral(returned.v) = StripZeros(call.str_)

\* The characters that occur in the numerals of type T: digits and signs, and
\* for float and double the radix point and the letters of an exponent, of
\* infinity and of nan.
NumeralChars(T) ==
    Range(DigitChars) \cup {"-", "+"}
      \cup (IF T \in {"float", "double"}
            THEN {".", "e", "i", "n", "f", "t", "y", "a"} ELSE {})

\* C19: a conversion to a numeric type succeeds only on a token that is not
\* empty and holds no character other than those of a numeral of that type.
C19_NumeralIsWholeString ==
    (call.op = "value" /\ call.T \in NumericTypes /\ thrown = NoThrow) =>
        /\ call.str_ # <<>>
        /\ \A i \in DOMAIN call.str_ : call.str_[i] \in NumeralChars(call.T)

\* Whether the token is digits that denote a number of at most 2^64 - 1.
IsUint64Numeral(s) == IsDigits(s) /\ DecLeq(StripZeros(s), Uint64MaxNumeral)

\* C20 as stated: for every token of digits that denotes a number of at most
\* 2^64 - 1, value<uint64_t>() succeeds and the decimal numeral of what it
\* returns is the token.
C20_RoundTripOfDigits ==
    (Converted("uint64") /\ IsUint64Numeral(call.str_)) =>
        /\ thrown = NoThrow
        /\ allToStringUint64(returned.v) = call.str_

\* C20: for every token of digits without a redundant leading zero that
\* denotes a number of at most 2^64 - 1, value<uint64_t>() succeeds and the
\* decimal numeral of what it returns is the token; with leading zeros the
\* numeral is the token without them.
C20_RoundTripOfCanonicalDigits ==
    (Converted("uint64") /\ IsUint64Numeral(call.str_)) =>
        /\ thrown = NoThrow
        /\ allToStringUint64(returned.v) = StripZeros(call.str_)
        /\ call.str_ = StripZeros(call.str_)
              => allToStringUint64(returned.v) = call.str_

\* The last cmdlineIs got through its scan: it returned, or it threw from
\* the checks that follow the scan.
ScanCompleted == Parsed /\ thrown.type \in {"none", "ArgPropertyException"}

\* The runs of the last command line.
LineRuns == Runs(LastTokens, <<[flag |-> <<>>, vals |-> <<>>]>>)

\* min(expectCount, length of the run), where an unlimited arity takes all.
TakeCount(n, len) == IF n = Unlimited THEN len ELSE Min(n, len)

\* What the occurrences of the keys of the Argument at ptr take, in order.
RECURSIVE TakenBy(_, _)
TakenBy(runs, ptr) ==
    IF runs = <<>> THEN <<>>
    ELSE LET run == Head(runs)
             mine == run.flag \in DOMAIN optionMap_ /\ optionMap_[run.flag] = ptr
         IN  (IF mine
              THEN SubSeq(run.vals, 1,
                          TakeCount(heap[ptr].expectCount_, Len(run.vals)))
              ELSE <<>>) \o TakenBy(Tail(runs), ptr)

\* arg holds the values taken, then nothing but copies of its default.
HoldsThenDefaults(arg, taken) ==
    /\ Len(arg.argValueList_) >= Len(taken)
    /\ SubSeq(arg.argValueList_, 1, Len(taken)) = taken
    /\ \A i \in DOMAIN arg.argValueList_ :
          i > Len(taken) => arg.argValueList_[i] = arg.defaultValue_

\* C21: when the scan of cmdlineIs completes, each option holds, for each
\* occurrence of one of its keys, the first min(expectCount, length of the
\* run) tokens of the run of non-flag tokens that follows the flag (all of it
\* for an unlimited arity, none for arity 0), and each positional holds the
\* first min(expectCount, what is left of the run) tokens at its match; what
\* they hold beyond that is back-filled defaults, never a token from beyond a
\* flag.
C21_ConsumesMinOfArityAndRun ==
    ScanCompleted =>
        /\ \A k \in DOMAIN optionMap_ :
              HoldsThenDefaults(heap[optionMap_[k]], TakenBy(LineRuns, optionMap_[k]))
        /\ \A k \in DOMAIN positionalArgList_ :
              HoldsThenDefaults(heap[positionalArgList_[k]],
                                IF k <= Len(PositionalMatches)
                                THEN PositionalMatches[k] ELSE <<>>)

\* For each positional match of the command line, the run it lies in.
RECURSIVE MatchRunIndices(_, _, _)
MatchRunIndices(runs, k, r) ==
    IF runs = <<>> THEN <<>>
    ELSE LET here == Pieces(LeftByOption(Head(runs)), k)
         IN  [i \in 1..Len(here) |-> r]
               \o MatchRunIndices(Tail(runs), k + Len(here), r + 1)

MatchRun == MatchRunIndices(LineRuns, 1, 1)

\* The declared positionals whose match was ended by a flag before they had
\* expectCount values.
InterruptedPositionals ==
    {k \in DOMAIN positionalArgList_ :
        /\ k <= Len(PositionalMatches)
        /\ Len(PositionalMatches[k]) < heap[positionalArgList_[k]].expectCount_
        /\ MatchRun[k] < Len(LineRuns)}

\* C22: a positional whose match a flag ended before it had expectCount values
\* holds, when the scan completes, the tokens of that match and no later
\* token; a cmdlineIs in which this happens to a required positional never
\* succeeds, and when its scan completes it fails with the property error
\* 'expectCount' of the first interrupted positional.
C22_InterruptedPositionalStaysShort ==
    Parsed =>
        LET required == {k \in InterruptedPositionals :
                            heap[positionalArgList_[k]].required_}
            first == CHOOSE k \in InterruptedPositionals :
                        \A j \in InterruptedPositionals : k <= j
        IN  /\ ScanCompleted =>
                  \A k \in InterruptedPositionals :
                      HoldsThenDefaults(heap[positionalArgList_[k]],
                                        PositionalMatches[k])
            /\ required # {} => thrown # NoThrow
            /\ (ScanCompleted /\ required # {}) =>
                  thrown = ArgPropertyException(heap[positionalArgList_[first]].name_,
                                                "expectCount")

\* C23: in every reachable state an argument of finite arity holds at most
\* expectCount values.
C23_ValuesWithinArity ==
    \A ptr \in Declared :
        FiniteArity(heap[ptr]) =>
            Len(heap[ptr].argValueList_) <= heap[ptr].expectCount_

\* What the scan gave the Argument at ptr: the tokens its flags took when it
\* is an option, the tokens of its match for each place it has among the
\* positionals.
ScannedFor(ptr) ==
    IF \E k \in DOMAIN positionalArgList_ : positionalArgList_[k] = ptr
    THEN LET k == CHOOSE j \in DOMAIN positionalArgList_ : positionalArgList_[j] = ptr
         IN  IF k <= Len(PositionalMatches) THEN PositionalMatches[k] ELSE <<>>
    ELSE TakenBy(LineRuns, ptr)

C26_ScanLoopBoundedByTokens ==
    Parsed =>
        /\ call.advanced
        /\ call.iters <= Len(LastTokens)

\* The declaration of an Argument: all of it but its parse state.
DeclarationOf(arg) ==
    [name_ |-> arg.name_, expectCount_ |-> arg.expectCount_,
     required_ |-> arg.required_, defaultValue_ |-> arg.defaultValue_,
     choices_ |-> arg.choices_]

\* C27: a cmdlineIs call, successful or not, leaves the positional list, the
\* option keys and what they point to, the alias map, and the name, arity,
\* required flag, default value and choice set of every Argument as they were.
C27_ParseKeepsDeclarations ==
    [][call'.op = "cmdlineIs"
         => /\ positionalArgList_' = positionalArgList_
            /\ DOMAIN optionMap_' = DOMAIN optionMap_
            /\ optionMap_' = optionMap_
            /\ aliasMap_' = aliasMap_
            /\ DOMAIN heap' = DOMAIN heap
            /\ \A p \in DOMAIN heap :
                  DeclarationOf(heap'[p]) = DeclarationOf(heap[p])]_vars

\* C28: in every reachable state every Argument that has a non-empty choice
\* set has its default value in the set and holds only values of the set,
\* whether the scan or the back-fill stored them, before and after a
\* failure.
C28_StoredValuesAreChoices ==
    \A p \in DOMAIN heap :
        heap[p].choices_ # {} =>
            /\ heap[p].defaultValue_ \in heap[p].choices_
            /\ Range(heap[p].argValueList_) \subseteq heap[p].choices_

\* The tokens of the last command line that are not flags, in order.
NonFlagTokens == SelectSeq(LastTokens, LAMBDA t : ~isFlag(t))

Count(seq, v) == Cardinality({i \in DOMAIN seq : seq[i] = v})

\* How often v is a value of one of the Arguments 1..p.
RECURSIVE StoredCount(_, _)
StoredCount(p, v) ==
    IF p = 0 THEN 0
    ELSE Count(heap[p].argValueList_, v) + StoredCount(p - 1, v)

RECURSIVE IsSubsequence(_, _)
IsSubsequence(a, b) ==
    IF a = <<>> THEN TRUE
    ELSE IF b = <<>> THEN FALSE
    ELSE IF Head(a) = Head(b) THEN IsSubsequence(Tail(a), Tail(b))
    ELSE IsSubsequence(a, Tail(b))

\* The values of an Argument that are not its default.  No token of the
\* command lines is the default value of a declaration, so these are the
\* values the scan stored.
FromScan(arg) == SelectSeq(arg.argValueList_, LAMBDA v : v # arg.defaultValue_)

\* C29: when the scan of cmdlineIs completes without a key or value error,
\* every non-flag token of the command line is a value of the Arguments as
\* many times as it occurs in the command line, the Arguments hold no other
\* value than these and their defaults, and the values each Argument took
\* from the scan are in the order of the command line.
C29_TokensConserved ==
    ScanCompleted =>
        /\ \A v \in Range(NonFlagTokens) :
              StoredCount(Len(heap), v) = Count(NonFlagTokens, v)
        /\ \A p \in DOMAIN heap :
              /\ Range(FromScan(heap[p])) \subseteq Range(NonFlagTokens)
              /\ IsSubsequence(FromScan(heap[p]), NonFlagTokens)

\* The names and aliases of the declared options are pairwise distinct: no
\* two options were declared with one name, and no name is also an alias.
DistinctKeys ==
    /\ \A p, q \in DOMAIN heap :
          (p # q /\ isFlag(heap[p].name_)) => heap[p].name_ # heap[q].name_
    /\ \A p \in DOMAIN heap : heap[p].name_ \notin DOMAIN aliasMap_

\* C30: in a registry whose option names and aliases are pairwise distinct,
\* the cmdlineIs that follows a failed cmdlineIs ends as it does on a fresh
\* copy of the registry: the same success or exception, and in every declared
\* Argument the same values and the same given flag.
C30_FailedParseLeavesNoTrace ==
    [][(/\ Parsed
        /\ thrown # NoThrow
        /\ DistinctKeys
        /\ call'.op = "cmdlineIs"
        /\ nParse' = nParse + 1)
         => \E order \in KeyOrders :
                LET fresh == CmdlineIs(FreshHeap, call'.argv, order)
                IN  /\ thrown' = fresh.thrown
                    /\ \A ptr \in Declared :
                          /\ heap'[ptr].argValueList_ = fresh.heap[ptr].argValueList_
                          /\ heap'[ptr].given_ = fresh.heap[ptr].given_]_vars

(***************************************************************************)
(* States in which the cases of the properties occur.                      *)
(***************************************************************************)
\* A command line that met a non-flag token after its positionals were
\* matched, ahead of an undeclared flag token.
C7_Witness ==
    /\ Parsed
    /\ Len(positionalArgList_) >= 1
    /\ thrown = TooManyPositionals
    /\ UndeclaredFlagAt # {}

\* A command line whose token was rejected by the choice set of an argument
\* that had already stored a value.
C8_Witness ==
    /\ Parsed
    /\ thrown.type = "ArgValueException"
    /\ \E ptr \in Declared :
          /\ heap[ptr].choices_ # {}
          /\ thrown.val \notin heap[ptr].choices_
          /\ heap[ptr].argValueList_ # <<>>

\* A declaration that violates rules 2, 3 and 5 and is refused for rule 2.
C9_Witness ==
    /\ call.op = "argumentNew"
    /\ Rule2(call) /\ Rule3(call) /\ Rule5(call)
    /\ thrown = ArgPropertyException(call.name, "required")

\* A required positional refused after a required and a non-required one.
C10_Witness ==
    /\ call.op = "argumentNew"
    /\ ~isFlag(call.name) /\ call.required
    /\ thrown = ArgPropertyException(call.name, "required")
    /\ Len(positionalArgList_) = 2
    /\ heap[positionalArgList_[1]].required_
    /\ ~heap[positionalArgList_[2]].required_

\* A command line whose dash-digit tokens became a value of a positional
\* argument and a value of an option.
C12_Witness ==
    /\ ParsedOk
    /\ \E ptr \in Range(positionalArgList_) : StrM5 \in Range(heap[ptr].argValueList_)
    /\ \E k \in DOMAIN optionMap_ : StrM5 \in Range(heap[optionMap_[k]].argValueList_)

\* A successful command line on which a flag lies between the matches of two
\* positional arguments, the first of which takes two values.
C14_Witness ==
    /\ ParsedOk
    /\ Len(positionalArgList_) = 2
    /\ Len(PositionalMatches) = 2
    /\ Len(PositionalMatches[1]) = 2
    /\ heap[positionalArgList_[2]].argValueList_ = PositionalMatches[2]
    /\ \E i \in DOMAIN LastTokens :
          /\ i > 2
          /\ i < Len(LastTokens)
          /\ isFlag(LastTokens[i])

\* A parser that has parsed a command line into a positional argument and an
\* option, read with an option string and an index it does not know.
C15_Witness ==
    /\ ParsedOk
    /\ Len(positionalArgList_) = 1
    /\ argValueCount(argumentByIdx(0)) >= 1
    /\ StrA \in DOMAIN optionMap_
    /\ argValueCount(argumentByKey(StrA)) >= 1
    /\ StrB \notin DOMAIN optionMap_
    /\ optionGiven(StrB).thrown = ArgKeyException(StrB)
    /\ argValue(argumentByIdx(1), strKeyIdx(1), 0).thrown = ArgKeyException(AtIndex(1))

\* An option whose last value reads as a 32-bit integer, read one index on.
C16_Witness ==
    /\ ParsedOk
    /\ \E k \in DOMAIN optionMap_ :
          LET ptr == argumentByKey(k)
              n == argValueCount(ptr)
          IN  /\ n >= 1
              /\ argValueT("int32", 64, ptr, strKeyStr(k), n - 1).thrown = NoThrow
              /\ argValueT("int32", 64, ptr, strKeyStr(k), n).thrown
                   = ArgValueException(<<>>)
    /\ \E n \in ProbeIndices :
          /\ n < Len(positionalArgList_)
          /\ argValueCount(argumentByIdx(n)) >= 1
          /\ argValueT("string", 64, argumentByIdx(n), strKeyIdx(n),
                       argValueCount(argumentByIdx(n))).value = <<>>

\* The least 32-bit integer converted, on a platform whose long has 64 bits.
C17_Witness ==
    /\ Converted("int32")
    /\ call.long = 64
    /\ call.str_ = <<"-">> \o Int32MinMagnitude
    /\ thrown = NoThrow
    /\ returned = [T |-> "int32", v |-> <<0, LimbBase \div 2>>]

\* The greatest unsigned 32-bit integer converted.
C18_Witness ==
    /\ Converted("uint32")
    /\ call.str_ = Uint32MaxNumeral
    /\ thrown = NoThrow
    /\ returned = [T |-> "uint32", v |-> <<LimbBase - 1, LimbBase - 1>>]

\* The greatest unsigned 64-bit integer converted and written back.
C20_Witness ==
    /\ Converted("uint64")
    /\ call.str_ = Uint64MaxNumeral
    /\ thrown = NoThrow
    /\ returned = [T |-> "uint64", v |-> WordAllOnes]
    /\ allToStringUint64(returned.v) = call.str_

\* A successful command line on which an option of arity 1 was followed by
\* three values: it took the first, and a positional took the next two.
C21_Witness ==
    /\ ParsedOk
    /\ Len(LastTokens) = 4
    /\ isFlag(LastTokens[1])
    /\ \A i \in 2..4 : ~isFlag(LastTokens[i])
    /\ heap[optionMap_[LastTokens[1]]].expectCount_ = 1
    /\ heap[optionMap_[LastTokens[1]]].argValueList_ = <<LastTokens[2]>>
    /\ Len(positionalArgList_) = 1
    /\ heap[positionalArgList_[1]].argValueList_ = <<LastTokens[3], LastTokens[4]>>

\* A positional of arity 2 that a flag interrupted after one value, the next
\* value having gone to the positional declared after it.
C22_Witness ==
    /\ Parsed
    /\ Len(positionalArgList_) = 2
    /\ heap[positionalArgList_[1]].name_ = StrP
    /\ heap[positionalArgList_[2]].name_ = StrX
    /\ InterruptedPositionals = {1}
    /\ Len(heap[positionalArgList_[1]].argValueList_) = 1
    /\ heap[positionalArgList_[2]].given_
    /\ Len(heap[positionalArgList_[2]].argValueList_)
         = heap[positionalArgList_[2]].expectCount_
    /\ thrown = ArgPropertyException(StrP, "expectCount")

C26_Witness ==
    /\ ParsedOk
    /\ Len(LastTokens) = 4
    /\ call.iters \in 2..3
    /\ \E k \in DOMAIN positionalArgList_ : heap[positionalArgList_[k]].given_
    /\ \E k \in DOMAIN optionMap_ : heap[optionMap_[k]].given_

\* A cmdlineIs that failed on a value after it had marked an Argument given,
\* on a registry with an alias and an Argument with a choice set.
C27_Witness ==
    /\ Parsed
    /\ thrown.type = "ArgValueException"
    /\ aliasMap_ # EmptyMap
    /\ \E p \in Declared : heap[p].given_
    /\ \E p \in Declared : heap[p].choices_ # {}

\* An Argument with a choice set that holds a scanned token and, after it, the
\* back-filled default.
C28_Witness ==
    /\ ParsedOk
    /\ \E p \in Declared :
          /\ heap[p].choices_ # {}
          /\ Len(heap[p].argValueList_) = 2
          /\ heap[p].argValueList_[1] \in Range(LastTokens)
          /\ heap[p].argValueList_[2] = heap[p].defaultValue_
          /\ heap[p].defaultValue_ \notin Range(LastTokens)

\* A completed scan of three non-flag tokens, two of them different, that
\* two Arguments share.
C29_Witness ==
    /\ ScanCompleted
    /\ Len(LastTokens) = 4
    /\ Len(NonFlagTokens) = 3
    /\ Cardinality(Range(NonFlagTokens)) >= 2
    /\ \E p, q \in Declared :
          /\ p # q
          /\ FromScan(heap[p]) # <<>>
          /\ FromScan(heap[q]) # <<>>

\* A second cmdlineIs that succeeded and stored a token, after the first one
\* on the same parser had failed, in a registry of an option with an alias.
C30_Witness ==
    /\ nParse = 2
    /\ ParsedOk
    /\ call.after # "none"
    /\ DistinctKeys
    /\ aliasMap_ # EmptyMap
    /\ \E ptr \in Declared : heap[ptr].argValueList_ # <<>>
                               /\ heap[ptr].argValueList_[1] \in Range(LastTokens)

====
